---- MODULE Spec2Model ----
(***************************************************************************)
(* Unified inbox: the in-memory message store (services/messageService.js) *)
(* and the webhook routes that feed it (routes/webhooks.js, the second     *)
(* half of src/routes/telegram.js).  Node runs one handler at a time; a    *)
(* handler gives up control only at an await, so every action below is     *)
(* the code between two awaits of one request.                             *)
(***************************************************************************)
EXTENDS Integers, Sequences, FiniteSets, TLC

\* ------------------------------------------------------------------ bounds
MaxReq == 2            \* requests (webhook POSTs / createMessage calls) per run
MaxOps == 1            \* read / status / delete operations on the stores per run
QueueCapacity == 1     \* messages a subscriber's outbound queue is to hold at most

\* ------------------------------------------------------------- value sets
None == "undefined"
Unknown == "Unknown"
Reqs == 1..MaxReq
Chat == "c1"
Missing == {"none", "content", "from", "message_id", "date"}
ConvName(n) == "conv_" \o ToString(n)
MsgName(n) == "msg_" \o ToString(n)
\* conversationId values a caller of createMessage can put in messageData
SuppliedConvIds == {None, ConvName(1), "conv_x"}

\* A request body.  missing names the one mandatory field the payload lacks
\* ("content": no message / message.data at all).  conversationId is only
\* ever present when messageService.createMessage is called directly
\* ("service"); no webhook route puts it into the unified message.  date is
\* the platform's time of the original send, in seconds; media the kinds of
\* media the platform message carries.  signature says what the request
\* carries in its x-telegram-bot-api-signature header: nothing ("absent"), a
\* value made without the secret ("forged"), or the HMAC of the body under the
\* webhook secret ("signed").
Body(route, missing, sender, native, text, edited, cid, date, media, signature) ==
    [route |-> route, missing |-> missing, sender |-> sender, native |-> native,
     text |-> text, edited |-> edited, conversationId |-> cid,
     date |-> date, media |-> media, signature |-> signature]
\* a text message, an edited message with a photo and a document, and a mail
\* whose sender is its own recipient
WellFormed ==
    {Body("telegram", "none", "u1", 555, "hi", FALSE, None, 2, {}, "absent"),
     Body("telegram", "none", "u1", 555, "", TRUE, None, 1, {"photo", "document"},
          "forged"),
     Body("gmail", "none", Chat, 555, "", FALSE, None, 3, {}, "absent")}
Malformed ==
    {Body("telegram", m, "u1", 555, "", FALSE, None, 1, {}, "signed") :
        m \in Missing \ {"none"}}
Direct ==
    {Body("service", "none", "u2", 557, "", FALSE, c, 1, {}, "absent") :
        c \in SuppliedConvIds \ {None}}
Payloads == WellFormed \cup Malformed \cup Direct

VARIABLES
    messages,             \* this.messages: the ids (keys) held by the Map
    heap,                 \* the message objects, by id; the Map holds references
    conversations,        \* this.conversations: id -> conversation object
    messageCounter,       \* this.messageCounter
    conversationCounter,  \* this.conversationCounter
    req,                  \* the requests: position, locals and response
    emitted,              \* ids of the messages handed to socket.io as 'message:new'
    ioRegistered,         \* whether the app carries an 'io' setting
    countLog,             \* per conversation: messageCount after each update
    ops,                  \* store operations (mark as read, delete) so far
    routeMessages,        \* routes/messages.js: the module's `messages` array
    users,                \* routes/auth.js: the module's `users` array
    reg,                  \* the POST /register requests: position, body, answer
    activeWorkflows,      \* pluginService.activeWorkflows: the ids held by the Map
    workflowObjects,      \* the workflow objects, by id
    scheduledTasks,       \* pluginService.scheduledTasks: id -> is the cron task started
    exec,                 \* the executeWorkflow calls: position, locals, result
    handshake             \* the last GET verification request and its answer

coreVars == <<messages, heap, conversations, messageCounter, conversationCounter,
              req, emitted, ioRegistered, countLog, ops, routeMessages>>
authVars == <<users, reg>>
pluginVars == <<activeWorkflows, workflowObjects, scheduledTasks, exec>>
hookVars == <<handshake>>
vars == <<coreVars, authVars, pluginVars, hookVars>>

\* The mock database of routes/messages.js (5-59).
MockMessages ==
    << [id |-> "1", platform |-> "gmail", sender |-> "alice@gmail.com", status |-> "read"],
       [id |-> "2", platform |-> "telegram", sender |-> "@devgroup", status |-> "unread"],
       [id |-> "3", platform |-> "whatsapp", sender |-> "+1234567890", status |-> "unread"],
       [id |-> "4", platform |-> "instagram", sender |-> "@follower123", status |-> "read"] >>
\* ids and statuses the PATCH / DELETE requests of a run carry
RouteIds == {"2"}
RouteStatuses == {"read"}

NoResponse == [status |-> 0, messageId |-> None]
IdleReq == [pc |-> "idle", payload |-> None, mid |-> None, ts |-> None,
            cid |-> None, resp |-> NoResponse, item |-> 0, stored |-> {}]

CoreInit ==
    /\ messages = {}
    /\ heap = << >>
    /\ conversations = << >>
    /\ messageCounter = 0
    /\ conversationCounter = 0
    /\ req = [r \in Reqs |-> IdleReq]
    /\ emitted = {}
    /\ ioRegistered \in BOOLEAN
    /\ countLog = << >>
    /\ ops = 0
    /\ routeMessages = MockMessages

\* ---------------------------------------------------------------- routes
\* process.env.TELEGRAM_WEBHOOK_SECRET
WebhookSecret == "s3cret"
\* crypto.createHmac('sha256', secret).update(JSON.stringify(body)).digest('hex'):
\* one value per secret and body
Hmac(secret, p) ==
    <<secret, p.missing, p.sender, p.native, p.text, p.edited, p.date, p.media>>
\* req.headers['x-telegram-bot-api-signature'] of a request that carries one
SignatureHeader(p) ==
    IF p.signature = "signed" THEN Hmac(WebhookSecret, p) ELSE <<"forged">>
\* verifyWebhook: the status it answers, or 0 when it calls next()
VerifyWebhook(p, secret) ==
    IF p.signature = "absent" \/ secret = None THEN 401
    ELSE IF SignatureHeader(p) /= Hmac(secret, p) THEN 401
    ELSE 0

\* The unified message a webhook route builds from the request body
\* (telegram: 280-295, gmail: 596-612); a direct caller of createMessage hands
\* the message data over as it is.  Gmail falls back to 'Unknown' for a
\* missing sender and passes a missing id through as undefined; Telegram
\* dereferences msg.from and msg.message_id, handled in RouteThrows.
\* new Date(msg.date * 1000): milliseconds; without msg.date an Invalid Date,
\* whose time value is NaN
InvalidDate == -1
ToDate(p) == IF p.missing = "date" THEN InvalidDate ELSE p.date * 1000

\* the attachments array of the Telegram route (297-325): one entry per kind
\* of media, photo first, then video, then document; audio and voice open
\* the array and add nothing.  Without media the field stays undefined, which
\* normalizeMessageData replaces by [] (120): both are the empty sequence here
MediaKinds == <<"photo", "video", "document">>
AttachmentType(kind) == IF kind = "photo" THEN "image" ELSE kind
RECURSIVE AttachmentsFrom(_, _)
AttachmentsFrom(media, i) ==
    IF i > Len(MediaKinds) THEN << >>
    ELSE (IF MediaKinds[i] \in media THEN <<AttachmentType(MediaKinds[i])>> ELSE << >>)
         \o AttachmentsFrom(media, i + 1)

UnifiedMessage(p) ==
    [platform |-> IF p.route = "service" THEN "gmail"
                  ELSE IF p.route = "send" THEN "telegram" ELSE p.route,
     senderId |-> IF p.missing = "from" THEN Unknown ELSE p.sender,
     recipientId |-> Chat,
     text |-> p.text,
     timestamp |-> ToDate(p),
     attachments |-> AttachmentsFrom(p.media, 1),
     platformMessageId |-> IF p.missing = "message_id" THEN None
                           ELSE ToString(p.native),
     conversationId |-> p.conversationId,
     isEdited |-> p.edited,
     isIncoming |-> IF p.route = "send" THEN "false" ELSE None,
     status |-> IF p.route = "send" THEN "sent" ELSE None]

\* if (!message && !edited_message && ...) / if (!message?.data): answered
\* 200 before anything is built.
NoContent(p) == p.missing = "content"

\* msg.from.username / msg.message_id.toString() on a missing field raise a
\* TypeError inside the route's try block.
RouteThrows(p) == p.route = "telegram" /\ p.missing \in {"from", "message_id"}

\* ---------------------------------------------------------- aiService
\* what openaiCategorization yields: null (no client, or the request failed),
\* or the category and confidence (in hundredths) of the model's answer
NoOpenAi == [category |-> None, confidence |-> 0]
OpenAiAnswers ==
    {NoOpenAi,
     [category |-> "general", confidence |-> 95],
     [category |-> "urgent", confidence |-> 95]}
UrgentTerms == {"urgent", "asap", "emergency", "critical", "immediate", "help", "sos"}
SupportTerms == {"support", "help", "issue", "problem", "broken", "error", "bug",
                 "complaint"}
SalesTerms == {"price", "cost", "quote", "pricing", "buy", "purchase", "order", "sales"}
SpamTerms == {"lottery", "winner"}
\* ruleBasedCategorization of a one-word text
RuleBasedCategorization(text) ==
    IF text \in UrgentTerms THEN [category |-> "urgent", confidence |-> 90]
    ELSE IF text \in SupportTerms THEN [category |-> "customer_support", confidence |-> 80]
    ELSE IF text \in SalesTerms THEN [category |-> "sales_inquiry", confidence |-> 70]
    ELSE IF text \in SpamTerms THEN [category |-> "bot_spam", confidence |-> 60]
    ELSE [category |-> "general", confidence |-> 50]
\* tfidfCategorization: this.tfidf.tfidf(text) is called without a document
\* index, the call ends in the catch block (249-252)
TfidfCategorization(text) == [category |-> "general", confidence |-> 30]
\* this.categories[category]?.priority || 'normal'
CategoryPriority(category) ==
    CASE category = "urgent" -> "high"
      [] category \in {"customer_support", "sales_inquiry"} -> "medium"
      [] category = "bot_spam" -> "low"
      [] OTHER -> "normal"
PositiveWords == {"good", "great", "excellent", "amazing", "wonderful", "love", "like",
                  "happy", "pleased"}
NegativeWords == {"bad", "terrible", "awful", "hate", "dislike", "angry", "frustrated",
                  "disappointed", "sad"}
\* analyzeSentiment of a one-word text
AnalyzeSentiment(text) ==
    IF text \in PositiveWords THEN "positive"
    ELSE IF text \in NegativeWords THEN "negative"
    ELSE "neutral"
\* the weighted votes (0.4, 0.3, 0.3) in the order their categories enter
\* `scores`
Votes(text, openai) ==
    <<[category |-> RuleBasedCategorization(text).category,
       score |-> RuleBasedCategorization(text).confidence * 4],
      [category |-> TfidfCategorization(text).category,
       score |-> TfidfCategorization(text).confidence * 3]>>
    \o (IF openai.category /= None
        THEN <<[category |-> openai.category, score |-> openai.confidence * 3]>>
        ELSE << >>)
RECURSIVE ScoreOf(_, _, _)
\* scores[category]
ScoreOf(votes, category, i) ==
    IF i > Len(votes) THEN 0
    ELSE (IF votes[i].category = category THEN votes[i].score ELSE 0)
         + ScoreOf(votes, category, i + 1)
\* the first category of `scores` with the highest score (score > bestScore)
BestCategory(votes) ==
    LET best == CHOOSE i \in 1..Len(votes) :
                   /\ \A j \in 1..Len(votes) :
                         ScoreOf(votes, votes[j].category, 1)
                           <= ScoreOf(votes, votes[i].category, 1)
                   /\ \A j \in 1..(i - 1) :
                         ScoreOf(votes, votes[j].category, 1)
                           < ScoreOf(votes, votes[i].category, 1)
    IN  votes[best].category
\* categorizeMessage: the part of its result createMessage copies into the
\* message that is modelled here
CategorizeMessage(text, openai) ==
    [category |-> BestCategory(Votes(text, openai)),
     priority |-> CategoryPriority(BestCategory(Votes(text, openai))),
     sentiment |-> AnalyzeSentiment(text)]
\* aiAnalysis = null: the text is empty
NoAnalysis == [category |-> None, priority |-> None, sentiment |-> None]

\* ------------------------------------------------------- messageService
\* normalizeMessageData: type and isIncoming by platform, defaults for the
\* rest; no field is validated.
NormalizeMessageData(md) ==
    [platform |-> md.platform,
     senderId |-> md.senderId,
     recipientId |-> md.recipientId,
     text |-> md.text,
     timestamp |-> md.timestamp,
     attachments |-> md.attachments,
     platformMessageId |-> md.platformMessageId,
     conversationId |-> md.conversationId,
     isEdited |-> md.isEdited,
     type |-> IF md.platform = "gmail" THEN "email" ELSE "chat",
     isIncoming |-> md.isIncoming /= "false"]

\* `new Date()` at the n-th call of createMessage (32): the wall clock at
\* ingestion, later than any send time a payload reports; successive calls
\* are taken to be at least a millisecond apart.
IngestionEpoch == 9000
Now(n) == IngestionEpoch + n

\* The message object of createMessage (47-73): timestamp is the local
\* constant of line 32, the timestamp of the message data is not copied.
NewMessage(id, n, timestamp, aiAnalysis) ==
    [id |-> id,
     platform |-> n.platform,
     senderId |-> n.senderId,
     recipientId |-> n.recipientId,
     text |-> n.text,
     timestamp |-> timestamp,
     attachments |-> n.attachments,
     status |-> "unread",
     readAt |-> None,
     type |-> n.type,
     conversationId |-> n.conversationId,
     platformMessageId |-> n.platformMessageId,
     isIncoming |-> n.isIncoming,
     isEdited |-> n.isEdited,
     priority |-> IF aiAnalysis.priority = None THEN "normal" ELSE aiAnalysis.priority,
     aiCategory |-> IF aiAnalysis.category = None THEN "general"
                    ELSE aiAnalysis.category,
     aiSentiment |-> IF aiAnalysis.sentiment = None THEN "neutral"
                     ELSE aiAnalysis.sentiment]

\* [senderId, recipientId].filter(Boolean)
Truthy(x) == x /= None /\ x /= ""
FilterBoolean(s) == SelectSeq(s, Truthy)

Includes(s, x) == \E i \in 1..Len(s) : s[i] = x

\* The conversation object of createConversation (261-275).
NewConversation(cid, m) ==
    [id |-> cid,
     participants |-> FilterBoolean(<<m.senderId, m.recipientId>>),
     platforms |-> {m.platform},
     messageCount |-> 1,
     lastMessage |-> m.text,
     lastMessageTime |-> m.timestamp,
     primaryPlatform |-> m.platform]

\* participants.push(x) unless already included
PushNew(s, x) == IF Truthy(x) /\ ~Includes(s, x) THEN Append(s, x) ELSE s

\* The body of `if (conversation) { ... }` in updateConversation (232-246).
UpdatedConversation(c, m) ==
    [c EXCEPT !.lastMessage = m.text,
              !.lastMessageTime = m.timestamp,
              !.messageCount = @ + 1,
              !.platforms = @ \cup {m.platform},
              !.participants = PushNew(PushNew(@, m.senderId), m.recipientId)]

\* conversations.get(cid) followed by the guarded update
ConversationsAfterUpdate(cid, m) ==
    IF cid \in DOMAIN conversations
    THEN [conversations EXCEPT ![cid] = UpdatedConversation(@, m)]
    ELSE conversations

CountLogAfterUpdate(cid) ==
    IF cid \in DOMAIN conversations
    THEN [countLog EXCEPT ![cid] = Append(@, conversations[cid].messageCount + 1)]
    ELSE countLog

\* a message object is still referenced by a running createMessage
Held(id) == \E r \in Reqs : req[r].pc \in {"conv", "updated"} /\ req[r].mid = id
HeldByOther(r, id) ==
    \E q \in Reqs \ {r} : req[q].pc \in {"conv", "updated"} /\ req[q].mid = id
\* objects no longer reachable from the Map or a running call are dropped
Collect(h, keep) == [id \in {i \in DOMAIN h : i \in keep} |-> h[id]]

\* an updateConversation that opens a conversation for every message, also
\* for one that already names its conversation
StoreMessageAlwaysCreates(r, rq, id, m) ==
    /\ messages' = messages \cup {id}
    /\ heap' = (id :> m) @@ heap
    /\ LET cid == ConvName(conversationCounter + 1) IN
       /\ conversationCounter' = conversationCounter + 1
       /\ conversations' = (cid :> NewConversation(cid, m)) @@ conversations
       /\ countLog' = (cid :> << >>) @@ countLog
       /\ req' = [req EXCEPT ![r] = [rq EXCEPT !.pc = "conv", !.mid = id,
                                               !.cid = cid]]

\* createMessage from `this.messages.set` (76) to the first await inside
\* updateConversation: without a conversationId the conversation is created
\* at once and the update waits for `await this.createConversation`; with
\* one the update runs at once.
StoreMessage(r, rq, id, m) ==
    /\ messages' = messages \cup {id}
    /\ heap' = (id :> m) @@ heap
    /\ IF m.conversationId = None
       THEN LET cid == ConvName(conversationCounter + 1) IN
            /\ conversationCounter' = conversationCounter + 1
            /\ conversations' = (cid :> NewConversation(cid, m)) @@ conversations
            /\ countLog' = (cid :> << >>) @@ countLog
            /\ req' = [req EXCEPT ![r] = [rq EXCEPT !.pc = "conv", !.mid = id,
                                                    !.cid = cid]]
       ELSE /\ conversations' = ConversationsAfterUpdate(m.conversationId, m)
            /\ countLog' = CountLogAfterUpdate(m.conversationId)
            /\ req' = [req EXCEPT ![r] = [rq EXCEPT !.pc = "updated", !.mid = id,
                                                    !.cid = m.conversationId]]
            /\ UNCHANGED conversationCounter

\* ---------------------------------------------------------------- actions
\* A request arrives: the route up to its first await.  Requests are numbered
\* in arrival order.
\*   - no content: 200, nothing built;
\*   - the route throws while building the unified message: 500;
\*   - otherwise createMessage starts: the id is taken (31), the clock is
\*     read (32), the data is normalized (35), and with a non-empty text the
\*     call waits for aiService.categorizeMessage (41); with an empty text it
\*     goes straight on to store the message.
Receive(r, p) ==
    /\ req[r].pc = "idle"
    /\ (r > 1) => (req[r - 1].pc /= "idle")
    /\ LET rq == [req[r] EXCEPT !.payload = p] IN
       IF NoContent(p)
       THEN /\ req' = [req EXCEPT ![r] = [rq EXCEPT !.pc = "done",
                                                    !.resp = [status |-> 200, messageId |-> None]]]
            /\ UNCHANGED <<messages, heap, conversations, messageCounter,
                           conversationCounter, emitted, countLog>>
       ELSE IF RouteThrows(p)
       THEN /\ req' = [req EXCEPT ![r] = [rq EXCEPT !.pc = "done",
                                                    !.resp = [status |-> 500, messageId |-> None]]]
            /\ UNCHANGED <<messages, heap, conversations, messageCounter,
                           conversationCounter, emitted, countLog>>
       ELSE LET id == MsgName(messageCounter + 1)
                timestamp == Now(messageCounter + 1)
                n == NormalizeMessageData(UnifiedMessage(p)) IN
            /\ messageCounter' = messageCounter + 1
            /\ IF n.text /= ""
               THEN /\ req' = [req EXCEPT ![r] = [rq EXCEPT !.pc = "ai", !.mid = id,
                                                            !.ts = timestamp]]
                    /\ UNCHANGED <<messages, heap, conversations,
                                   conversationCounter, countLog>>
               ELSE StoreMessage(r, [rq EXCEPT !.ts = timestamp], id,
                                 NewMessage(id, n, timestamp, NoAnalysis))
            /\ UNCHANGED emitted
    /\ UNCHANGED <<ioRegistered, ops, routeMessages>>
    /\ UNCHANGED <<authVars, pluginVars, hookVars>>

\* categorizeMessage has answered (or thrown, which createMessage catches,
\* 42-44): the message object is built and stored.
AiDone(r, openai) ==
    /\ req[r].pc = "ai"
    /\ LET n == NormalizeMessageData(UnifiedMessage(req[r].payload)) IN
       StoreMessage(r, req[r], req[r].mid,
                    NewMessage(req[r].mid, n, req[r].ts,
                               CategorizeMessage(n.text, openai)))
    /\ UNCHANGED <<messageCounter, emitted, ioRegistered, ops, routeMessages>>
    /\ UNCHANGED <<authVars, pluginVars, hookVars>>

\* a continuation that is run only once no call is waiting for the
\* categorization any more, as behind one queue shared by all platforms
ResumeUpdateBehindOthers(r) ==
    /\ req[r].pc = "conv"
    /\ \A q \in Reqs : req[q].pc /= "ai"
    /\ LET id == req[r].mid
           m == [heap[id] EXCEPT !.conversationId = req[r].cid] IN
       /\ heap' = [heap EXCEPT ![id] = m]
       /\ conversations' = ConversationsAfterUpdate(req[r].cid, m)
       /\ countLog' = CountLogAfterUpdate(req[r].cid)
    /\ req' = [req EXCEPT ![r].pc = "updated"]
    /\ UNCHANGED <<messages, messageCounter, conversationCounter, emitted,
                   ioRegistered, ops, routeMessages>>
    /\ UNCHANGED <<authVars, pluginVars, hookVars>>

\* updateConversation after `await this.createConversation(message)`:
\* message.conversationId is assigned (227) on the object the Map refers to,
\* then the conversation is looked up and updated (230-247).
ResumeUpdate(r) ==
    /\ req[r].pc = "conv"
    /\ LET id == req[r].mid
           m == [heap[id] EXCEPT !.conversationId = req[r].cid] IN
       /\ heap' = [heap EXCEPT ![id] = m]
       /\ conversations' = ConversationsAfterUpdate(req[r].cid, m)
       /\ countLog' = CountLogAfterUpdate(req[r].cid)
    /\ req' = [req EXCEPT ![r].pc = "updated"]
    /\ UNCHANGED <<messages, messageCounter, conversationCounter, emitted,
                   ioRegistered, ops, routeMessages>>
    /\ UNCHANGED <<authVars, pluginVars, hookVars>>

\* req.app.get('io').to(room).emit('message:new', savedMessage): with no 'io'
\* setting on the app the lookup yields undefined and `.to` throws.
EmitThrows == ~ioRegistered

\* createMessage returns; a webhook route emits and answers (330-339,
\* 617-626), a direct caller just gets the message back.
Respond(r) ==
    /\ req[r].pc = "updated"
    /\ LET id == req[r].mid IN
       /\ IF req[r].payload.route \in {"service", "send"}
          THEN /\ req' = [req EXCEPT ![r].pc = "done",
                                     ![r].resp = [status |-> 0, messageId |-> id]]
               /\ UNCHANGED emitted
          ELSE IF EmitThrows
          THEN /\ req' = [req EXCEPT ![r].pc = "done",
                                     ![r].resp = [status |-> 500, messageId |-> None]]
               /\ UNCHANGED emitted
          ELSE /\ req' = [req EXCEPT ![r].pc = "done",
                                     ![r].resp = [status |-> 200, messageId |-> id]]
               /\ emitted' = emitted \cup {id}
       /\ heap' = Collect(heap, messages \cup {i \in DOMAIN heap : HeldByOther(r, i)})
    /\ UNCHANGED <<messages, conversations, messageCounter, conversationCounter,
                   ioRegistered, countLog, ops, routeMessages>>
    /\ UNCHANGED <<authVars, pluginVars, hookVars>>

\* a marking that also wipes the text of the message
MarkedReadClearsText(m) == [m EXCEPT !.status = "read", !.readAt = "set", !.text = ""]

\* message.status = 'read'; message.readAt = new Date()
MarkedRead(m) == [m EXCEPT !.status = "read", !.readAt = "set"]

\* markMessageAsRead (416-434) on a stored message.
MarkMessageAsRead(id) ==
    /\ id \in messages
    /\ ops < MaxOps
    /\ ops' = ops + 1
    /\ heap' = [heap EXCEPT ![id] = MarkedRead(@)]
    /\ UNCHANGED <<messages, conversations, messageCounter, conversationCounter,
                   req, emitted, ioRegistered, countLog, routeMessages>>
    /\ UNCHANGED <<authVars, pluginVars, hookVars>>

\* markConversationAsRead (437-461): every unread message of the conversation.
MarkConversationAsRead(cid) ==
    /\ cid \in DOMAIN conversations
    /\ ops < MaxOps
    /\ ops' = ops + 1
    /\ heap' = [id \in DOMAIN heap |->
                  IF id \in messages /\ heap[id].conversationId = cid
                     /\ heap[id].status = "unread"
                  THEN MarkedRead(heap[id])
                  ELSE heap[id]]
    /\ UNCHANGED <<messages, conversations, messageCounter, conversationCounter,
                   req, emitted, ioRegistered, countLog, routeMessages>>
    /\ UNCHANGED <<authVars, pluginVars, hookVars>>

\* deleteMessage (464-488): the entry leaves the Map and the conversation's
\* messageCount goes down by one, not below 0.
Max0(n) == IF n < 0 THEN 0 ELSE n

\* a deleteMessage that also gives the deleted message's number back to the
\* counter
DeleteMessageReleasesId(id) ==
    /\ id \in messages
    /\ ops < MaxOps
    /\ ops' = ops + 1
    /\ messages' = messages \ {id}
    /\ messageCounter' = messageCounter - 1
    /\ LET cid == heap[id].conversationId IN
       conversations' =
          IF cid /= None /\ cid \in DOMAIN conversations
          THEN [conversations EXCEPT ![cid].messageCount = Max0(@ - 1)]
          ELSE conversations
    /\ heap' = Collect(heap, (messages \ {id}) \cup {i \in DOMAIN heap : Held(i)})
    /\ UNCHANGED <<conversationCounter, req, emitted, ioRegistered, countLog,
                   routeMessages>>
    /\ UNCHANGED <<authVars, pluginVars, hookVars>>

DeleteMessage(id) ==
    /\ id \in messages
    /\ ops < MaxOps
    /\ ops' = ops + 1
    /\ messages' = messages \ {id}
    /\ LET cid == heap[id].conversationId IN
       conversations' =
          IF cid /= None /\ cid \in DOMAIN conversations
          THEN [conversations EXCEPT ![cid].messageCount = Max0(@ - 1)]
          ELSE conversations
    /\ heap' = Collect(heap, (messages \ {id}) \cup {i \in DOMAIN heap : Held(i)})
    /\ UNCHANGED <<messageCounter, conversationCounter, req, emitted,
                   ioRegistered, countLog, routeMessages>>
    /\ UNCHANGED <<authVars, pluginVars, hookVars>>

\* routes/messages.js
FindIndex(id) ==
    IF \E i \in 1..Len(routeMessages) : routeMessages[i].id = id
    THEN CHOOSE i \in 1..Len(routeMessages) :
            /\ routeMessages[i].id = id
            /\ \A j \in 1..(i - 1) : routeMessages[j].id /= id
    ELSE 0

\* messages.splice(index, 1)
Splice(s, i) == SubSeq(s, 1, i - 1) \o SubSeq(s, i + 1, Len(s))

\* PATCH /:id/status (193-213): the status of the found message is replaced;
\* an unknown id is answered 404 and changes nothing.
PatchStatus(id, status) ==
    /\ ops < MaxOps
    /\ FindIndex(id) /= 0
    /\ ops' = ops + 1
    /\ routeMessages' = [routeMessages EXCEPT ![FindIndex(id)].status = status]
    /\ UNCHANGED <<messages, heap, conversations, messageCounter,
                   conversationCounter, req, emitted, ioRegistered, countLog>>
    /\ UNCHANGED <<authVars, pluginVars, hookVars>>

\* DELETE /:id (216-234): the found message is spliced out of the array.
DeleteRouteMessage(id) ==
    /\ ops < MaxOps
    /\ FindIndex(id) /= 0
    /\ ops' = ops + 1
    /\ routeMessages' = Splice(routeMessages, FindIndex(id))
    /\ UNCHANGED <<messages, heap, conversations, messageCounter,
                   conversationCounter, req, emitted, ioRegistered, countLog>>
    /\ UNCHANGED <<authVars, pluginVars, hookVars>>

\* getConversationMessages (200-217): an unknown conversation throws; else
\* the stored messages naming the conversation, oldest first by timestamp,
\* cut to the last `limit`.  The timestamps of stored messages differ, so the
\* order of the sort is fixed by them.
DefaultLimit == 50
MessagesOf(cid) == {id \in messages : heap[id].conversationId = cid}
RECURSIVE SortByTimestamp(_)
SortByTimestamp(S) ==
    IF S = {} THEN << >>
    ELSE LET first == CHOOSE id \in S : \A o \in S : heap[id].timestamp <= heap[o].timestamp
         IN  <<heap[first]>> \o SortByTimestamp(S \ {first})
\* Array.prototype.slice(-n)
SliceLast(s, n) == IF Len(s) <= n THEN s ELSE SubSeq(s, Len(s) - n + 1, Len(s))
ConversationNotFound(cid) == cid \notin DOMAIN conversations
GetConversationMessages(cid, limit) == SliceLast(SortByTimestamp(MessagesOf(cid)), limit)

\* ------------------------------------- routes/telegram.js: POST /whatsapp
\* One message of req.body.entry[..].changes[..].value.messages; metadata
\* says whether the `value` it sits in has a `metadata` object.  The messages
\* carry media and no text.
WhatsAppMessage(id, timestamp, metadata) ==
    [id |-> id, from |-> "491701", timestamp |-> timestamp, metadata |-> metadata]
WaFirst == WhatsAppMessage("wamid.1", 4, TRUE)
WaSecond == WhatsAppMessage("wamid.2", 5, TRUE)
WaNoMetadata == WhatsAppMessage("wamid.3", 5, FALSE)
\* a request body: its `object` and, flattened in loop order, its messages
WhatsAppBody(object, items) == [route |-> "whatsapp", object |-> object, items |-> items]
WhatsAppBodies ==
    {WhatsAppBody("whatsapp_business_account", <<WaFirst>>),
     WhatsAppBody("whatsapp_business_account", <<WaFirst, WaSecond>>),
     WhatsAppBody("whatsapp_business_account", <<WaFirst, WaNoMetadata>>),
     WhatsAppBody("page", <<WaFirst>>)}

\* the unified message of the WhatsApp route (375-389)
WhatsAppUnified(message) ==
    [platform |-> "whatsapp",
     senderId |-> message.from,
     recipientId |-> "phone_1",
     text |-> "",
     timestamp |-> message.timestamp * 1000,
     attachments |-> <<[type |-> "image", platform |-> "whatsapp"]>>,
     platformMessageId |-> message.id,
     conversationId |-> None,
     isEdited |-> FALSE,
     isIncoming |-> None,
     status |-> None]

\* the loop body for the k-th message up to the first await of createMessage:
\* change.value.metadata.phone_number_id throws without metadata; otherwise
\* the message is built and stored and createConversation is awaited
ProcessWhatsAppMessage(r, rq, k) ==
    IF ~rq.payload.items[k].metadata
    THEN /\ req' = [req EXCEPT ![r] = [rq EXCEPT !.pc = "done",
                                                 !.resp = [status |-> 500, messageId |-> None]]]
         /\ UNCHANGED <<messages, heap, conversations, messageCounter,
                        conversationCounter, countLog>>
    ELSE LET id == MsgName(messageCounter + 1)
             timestamp == Now(messageCounter + 1)
             n == NormalizeMessageData(WhatsAppUnified(rq.payload.items[k])) IN
         /\ messageCounter' = messageCounter + 1
         /\ StoreMessage(r, [rq EXCEPT !.ts = timestamp, !.item = k,
                                       !.stored = @ \cup {id}],
                         id, NewMessage(id, n, timestamp, NoAnalysis))

\* POST /whatsapp up to its first await
ReceiveWhatsApp(r, b) ==
    /\ req[r].pc = "idle"
    /\ (r > 1) => (req[r - 1].pc /= "idle")
    /\ LET rq == [req[r] EXCEPT !.payload = b] IN
       IF b.object /= "whatsapp_business_account"
       THEN /\ req' = [req EXCEPT ![r] = [rq EXCEPT !.pc = "done",
                                                    !.resp = [status |-> 200, messageId |-> None]]]
            /\ UNCHANGED <<messages, heap, conversations, messageCounter,
                           conversationCounter, countLog>>
       ELSE ProcessWhatsAppMessage(r, rq, 1)
    /\ UNCHANGED <<emitted, ioRegistered, ops, routeMessages>>
    /\ UNCHANGED <<authVars, pluginVars, hookVars>>

\* POST /whatsapp from the return of createMessage: the emit, then the next
\* message of the request or the answer
ContinueWhatsApp(r) ==
    /\ req[r].pc = "updated"
    /\ IF EmitThrows
       THEN /\ req' = [req EXCEPT ![r].pc = "done",
                                  ![r].resp = [status |-> 500, messageId |-> None]]
            /\ UNCHANGED <<messages, heap, conversations, messageCounter,
                           conversationCounter, countLog, emitted>>
       ELSE /\ emitted' = emitted \cup {req[r].mid}
            /\ IF req[r].item < Len(req[r].payload.items)
               THEN ProcessWhatsAppMessage(r, req[r], req[r].item + 1)
               ELSE /\ req' = [req EXCEPT ![r].pc = "done",
                                          ![r].resp = [status |-> 200, messageId |-> None]]
                    /\ UNCHANGED <<messages, heap, conversations, messageCounter,
                                   conversationCounter, countLog>>
    /\ UNCHANGED <<ioRegistered, ops, routeMessages>>
    /\ UNCHANGED <<authVars, pluginVars, hookVars>>

WhatsAppNext ==
    \/ \E r \in Reqs, b \in WhatsAppBodies : ReceiveWhatsApp(r, b)
    \/ \E r \in Reqs : ResumeUpdate(r)
    \/ \E r \in Reqs : ContinueWhatsApp(r)

\* ------------------------------------------ messageService.sendMessage
\* sendMessage('telegram', messageData): messageData with and without a text
\* and a conversationId; native is the id the platform gives the sent message
SendPayloads ==
    {Body("send", "none", "me", 900, t, FALSE, c, 1, {}, "absent") :
        t \in {"hello", ""}, c \in {None, ConvName(1)}}
\* what the platform layer does with the call: getPlatform yields nothing
\* usable, the platform's send method rejects, or it resolves
SendOutcomes == {"unconfigured", "failed", "sent"}
\* sendMessage rejected (it rethrows, 409-412)
Rejected == [status |-> 500, messageId |-> None]

\* sendMessage up to `await platformInstance.methods.sendMessage`
SendMessage(r, p, outcome) ==
    /\ req[r].pc = "idle"
    /\ (r > 1) => (req[r - 1].pc /= "idle")
    /\ req' = [req EXCEPT ![r] =
                 IF outcome = "unconfigured"
                 THEN [req[r] EXCEPT !.payload = p, !.pc = "done", !.resp = Rejected]
                 ELSE [req[r] EXCEPT !.payload = p, !.pc = outcome]]
    /\ UNCHANGED <<messages, heap, conversations, messageCounter,
                   conversationCounter, emitted, ioRegistered, countLog, ops,
                   routeMessages>>
    /\ UNCHANGED <<authVars, pluginVars, hookVars>>

\* the platform's send method settles: rejected, sendMessage rethrows; resolved,
\* createMessage is called with isIncoming false and status 'sent' (395-402)
\* and runs up to its first await
PlatformReturns(r) ==
    /\ req[r].pc \in {"failed", "sent"}
    /\ IF req[r].pc = "failed"
       THEN /\ req' = [req EXCEPT ![r].pc = "done", ![r].resp = Rejected]
            /\ UNCHANGED <<messages, heap, conversations, messageCounter,
                           conversationCounter, countLog>>
       ELSE LET id == MsgName(messageCounter + 1)
                timestamp == Now(messageCounter + 1)
                n == NormalizeMessageData(UnifiedMessage(req[r].payload)) IN
            /\ messageCounter' = messageCounter + 1
            /\ IF n.text /= ""
               THEN /\ req' = [req EXCEPT ![r].pc = "ai", ![r].mid = id,
                                          ![r].ts = timestamp]
                    /\ UNCHANGED <<messages, heap, conversations,
                                   conversationCounter, countLog>>
               ELSE StoreMessage(r, [req[r] EXCEPT !.ts = timestamp], id,
                                 NewMessage(id, n, timestamp, NoAnalysis))
    /\ UNCHANGED <<emitted, ioRegistered, ops, routeMessages>>
    /\ UNCHANGED <<authVars, pluginVars, hookVars>>

SendNext ==
    \/ \E r \in Reqs, p \in SendPayloads, o \in SendOutcomes : SendMessage(r, p, o)
    \/ \E r \in Reqs : PlatformReturns(r)
    \/ \E r \in Reqs, openai \in OpenAiAnswers : AiDone(r, openai)
    \/ \E r \in Reqs : ResumeUpdate(r)
    \/ \E r \in Reqs : Respond(r)
    \/ \E cid \in {ConvName(n) : n \in 1..MaxReq} : MarkConversationAsRead(cid)

\* ------------------------------------------------------- routes/auth.js
MaxReg == 2
Regs == 1..MaxReg
Emails == {"a@x.io", "b@x.io"}
\* a body without `password` makes bcrypt.hash reject
Passwords == {"secret", None}
IdleReg == [pc |-> "idle", email |-> None, password |-> None, status |-> 0]

AuthInit ==
    /\ users = << >>
    /\ reg = [g \in Regs |-> IdleReg]

\* users.find(user => user.email === email)
UserExists(email) == \E i \in DOMAIN users : users[i].email = email

\* POST /register up to `await bcrypt.hash`
Register(g, email, password) ==
    /\ reg[g].pc = "idle"
    /\ reg' = [reg EXCEPT ![g] =
                 IF UserExists(email)
                 THEN [pc |-> "done", email |-> email, password |-> password,
                       status |-> 400]
                 ELSE [pc |-> "hash", email |-> email, password |-> password,
                       status |-> 0]]
    /\ UNCHANGED <<users, coreVars, pluginVars, hookVars>>

\* POST /register from the resolution of bcrypt.hash to the answer
HashDone(g) ==
    /\ reg[g].pc = "hash"
    /\ IF reg[g].password = None
       THEN /\ reg' = [reg EXCEPT ![g].pc = "done", ![g].status = 500]
            /\ UNCHANGED users
       ELSE /\ users' = Append(users, [email |-> reg[g].email])
            /\ reg' = [reg EXCEPT ![g].pc = "done", ![g].status = 201]
    /\ UNCHANGED <<coreVars, pluginVars, hookVars>>

AuthNext ==
    \/ \E g \in Regs, e \in Emails, pw \in Passwords : Register(g, e, pw)
    \/ \E g \in Regs : HashDone(g)

\* ------------------------------------------- services/pluginService.js
MaxWf == 1
\* the lengths of `actions` a workflow is created with
ActionCounts == {0, 1, 2}
MaxExec == 2
\* a workflow id stands for `workflow_<random hex>`: the n-th workflow created
WfIds == 1..MaxWf
\* an id no createWorkflow call ever returned
UnknownWf == 0
Execs == 1..MaxExec
IdleExec == [pc |-> "idle", wf |-> UnknownWf, trigger |-> None, i |-> 0,
             success |-> TRUE, result |-> None]

PluginInit ==
    /\ activeWorkflows = {}
    /\ workflowObjects = << >>
    /\ scheduledTasks = [w \in WfIds |-> "absent"]
    /\ exec = [e \in Execs |-> IdleExec]

\* createWorkflow with a configuration validateWorkflowConfig accepts:
\* `actions` holds nActions actions of the plugin, `timed` says that a
\* time_based trigger with a cronExpression is configured
CreateWorkflow(enabled, nActions, timed) ==
    /\ Len(workflowObjects) < MaxWf
    /\ LET workflowId == Len(workflowObjects) + 1
           workflow == [id |-> workflowId, enabled |-> enabled,
                        actions |-> nActions, executionCount |-> 0,
                        successCount |-> 0, errorCount |-> 0]
       IN  /\ workflowObjects' = Append(workflowObjects, workflow)
           /\ activeWorkflows' = activeWorkflows \cup {workflowId}
           /\ scheduledTasks' =
                IF timed
                THEN [scheduledTasks EXCEPT ![workflowId] =
                        IF enabled THEN "running" ELSE "stopped"]
                ELSE scheduledTasks
    /\ UNCHANGED <<exec, coreVars, authVars, hookVars>>

\* executeWorkflow up to the first `await this.executeAction`
\* (the calls are numbered in the order they are made)
ExecuteWorkflow(e, workflowId, trigger) ==
    /\ exec[e].pc = "idle"
    /\ \A f \in Execs : f < e => exec[f].pc /= "idle"
    /\ IF workflowId \notin activeWorkflows \/ ~workflowObjects[workflowId].enabled
       THEN /\ exec' = [exec EXCEPT ![e] =
                          [IdleExec EXCEPT !.pc = "done", !.wf = workflowId,
                                           !.result = "false"]]
            /\ UNCHANGED workflowObjects
       ELSE IF workflowObjects[workflowId].actions = 0
       THEN /\ workflowObjects' =
                 [workflowObjects EXCEPT
                    ![workflowId].executionCount = @ + 1,
                    ![workflowId].successCount = @ + 1]
            /\ exec' = [exec EXCEPT ![e] =
                          [IdleExec EXCEPT !.pc = "done", !.wf = workflowId,
                                           !.result = "true"]]
       ELSE /\ workflowObjects' =
                 [workflowObjects EXCEPT ![workflowId].executionCount = @ + 1]
            /\ exec' = [exec EXCEPT ![e] =
                          [IdleExec EXCEPT !.pc = "action", !.wf = workflowId,
                                           !.trigger = trigger, !.i = 1]]
    /\ UNCHANGED <<activeWorkflows, scheduledTasks, coreVars, authVars, hookVars>>

\* the cron task of a workflow fires: only a started task does
CronTick(e, workflowId) ==
    /\ scheduledTasks[workflowId] = "running"
    /\ ExecuteWorkflow(e, workflowId, "time_based")

\* the mutant of ActionDone: a failed execution is not counted as an error
ActionDoneForgetsError(e, ok) ==
    /\ exec[e].pc = "action"
    /\ LET workflowId == exec[e].wf
           success == exec[e].success /\ ok
       IN  IF exec[e].i < workflowObjects[workflowId].actions
           THEN /\ exec' = [exec EXCEPT ![e].i = @ + 1, ![e].success = success]
                /\ UNCHANGED workflowObjects
           ELSE /\ workflowObjects' =
                     IF success
                     THEN [workflowObjects EXCEPT ![workflowId].successCount = @ + 1]
                     ELSE workflowObjects
                /\ exec' = [exec EXCEPT ![e] =
                              [IdleExec EXCEPT !.pc = "done", !.wf = workflowId,
                                 !.result = IF success THEN "true" ELSE "false"]]
    /\ UNCHANGED <<activeWorkflows, scheduledTasks, coreVars, authVars, hookVars>>

\* executeWorkflow from the end of one awaited executeAction (resolved: ok,
\* threw: ~ok) to the next await, or to its return
ActionDone(e, ok) ==
    /\ exec[e].pc = "action"
    /\ LET workflowId == exec[e].wf
           success == exec[e].success /\ ok
       IN  IF exec[e].i < workflowObjects[workflowId].actions
           THEN /\ exec' = [exec EXCEPT ![e].i = @ + 1, ![e].success = success]
                /\ UNCHANGED workflowObjects
           ELSE /\ workflowObjects' =
                     IF success
                     THEN [workflowObjects EXCEPT ![workflowId].successCount = @ + 1]
                     ELSE [workflowObjects EXCEPT ![workflowId].errorCount = @ + 1]
                /\ exec' = [exec EXCEPT ![e] =
                              [IdleExec EXCEPT !.pc = "done", !.wf = workflowId,
                                 !.result = IF success THEN "true" ELSE "false"]]
    /\ UNCHANGED <<activeWorkflows, scheduledTasks, coreVars, authVars, hookVars>>

\* toggleWorkflow on an existing workflow (it throws for any other id)
ToggleWorkflow(workflowId, enabled) ==
    /\ workflowId \in activeWorkflows
    /\ workflowObjects' = [workflowObjects EXCEPT ![workflowId].enabled = enabled]
    /\ scheduledTasks' =
         IF scheduledTasks[workflowId] /= "absent"
         THEN [scheduledTasks EXCEPT ![workflowId] =
                 IF enabled THEN "running" ELSE "stopped"]
         ELSE scheduledTasks
    /\ UNCHANGED <<activeWorkflows, exec, coreVars, authVars, hookVars>>

\* deleteWorkflow on an existing workflow (it throws for any other id)
DeleteWorkflow(workflowId) ==
    /\ workflowId \in activeWorkflows
    /\ scheduledTasks' = [scheduledTasks EXCEPT ![workflowId] = "absent"]
    /\ activeWorkflows' = activeWorkflows \ {workflowId}
    /\ UNCHANGED <<workflowObjects, exec, coreVars, authVars, hookVars>>

\* Math.round(a / b * 100) for b > 0
RoundPercent(a, b) == (200 * a + b) \div (2 * b)
\* getWorkflowStats(...).successRate
SuccessRate(workflow) ==
    IF workflow.executionCount > 0
    THEN RoundPercent(workflow.successCount, workflow.executionCount)
    ELSE 0

WorkflowNext ==
    \/ \E enabled \in BOOLEAN, nActions \in ActionCounts, timed \in BOOLEAN :
          CreateWorkflow(enabled, nActions, timed)
    \/ \E e \in Execs, w \in WfIds \cup {UnknownWf} :
          ExecuteWorkflow(e, w, "message_received")
    \/ \E e \in Execs, w \in WfIds : CronTick(e, w)
    \/ \E e \in Execs, ok \in BOOLEAN : ActionDone(e, ok)
    \/ \E w \in WfIds, enabled \in BOOLEAN : ToggleWorkflow(w, enabled)
    \/ \E w \in WfIds : DeleteWorkflow(w)

\* ------------------------------------- routes/telegram.js: handshakes
HandshakeRoutes == {"whatsapp", "instagram"}
\* req.query['hub.mode'], ['hub.verify_token'], ['hub.challenge']
HubModes == {"subscribe", "unsubscribe", None}
HubTokens == {"tok", "bad", None}
HubChallenges == {"1158201444", None}
\* process.env.WHATSAPP_VERIFY_TOKEN / INSTAGRAM_VERIFY_TOKEN of the process
\* that answers: set, or absent
VerifyTokens == {"tok", None}

\* before any verification request
NoHandshake == [route |-> None, mode |-> None, token |-> None, challenge |-> None,
                configured |-> None, status |-> 0, body |-> None]

HookInit ==
    /\ handshake = NoHandshake

\* mode === 'subscribe' && token === process.env.<PLATFORM>_VERIFY_TOKEN
HandshakeAccepted(mode, token, configured) ==
    mode = "subscribe" /\ token = configured

\* GET /whatsapp, GET /instagram
VerifyHandshake(route, mode, token, challenge, configured) ==
    /\ handshake' =
         [route |-> route, mode |-> mode, token |-> token,
          challenge |-> challenge, configured |-> configured,
          status |-> IF HandshakeAccepted(mode, token, configured) THEN 200 ELSE 403,
          body |-> IF HandshakeAccepted(mode, token, configured)
                   THEN challenge ELSE "Forbidden"]
    /\ UNCHANGED <<coreVars, authVars, pluginVars>>

HandshakeNext ==
    \E route \in HandshakeRoutes, mode \in HubModes, token \in HubTokens,
       challenge \in HubChallenges, configured \in VerifyTokens :
        VerifyHandshake(route, mode, token, challenge, configured)

MessageIds == {MsgName(n) : n \in 1..MaxReq}
ConversationIds == {ConvName(n) : n \in 1..MaxReq}

Init == CoreInit /\ AuthInit /\ PluginInit /\ HookInit

Next ==
    \/ \E r \in Reqs, p \in Payloads : Receive(r, p)
    \/ \E r \in Reqs, openai \in OpenAiAnswers : AiDone(r, openai)
    \/ \E r \in Reqs : ResumeUpdate(r)
    \/ \E r \in Reqs : Respond(r)
    \/ \E id \in MessageIds : MarkMessageAsRead(id)
    \/ \E cid \in ConversationIds : MarkConversationAsRead(cid)
    \/ \E id \in MessageIds : DeleteMessage(id)
    \/ \E id \in RouteIds, st \in RouteStatuses : PatchStatus(id, st)
    \/ \E id \in RouteIds : DeleteRouteMessage(id)

Spec == Init /\ [][Next]_vars

\* Ingestion alone, as the event loop schedules it.  A continuation waiting
\* on a promise that is already settled (after createConversation, after
\* updateConversation) is run by the microtask queue, so ResumeUpdate and
\* Respond are weakly fair.  The categorization waits for an outside service
\* that may never answer, and nothing obliges a platform to send: AiDone and
\* Receive carry no fairness.
IngestNext ==
    \/ \E r \in Reqs, p \in Payloads : Receive(r, p)
    \/ \E r \in Reqs, openai \in OpenAiAnswers : AiDone(r, openai)
    \/ \E r \in Reqs : ResumeUpdate(r)
    \/ \E r \in Reqs : Respond(r)
IngestFairness ==
    \A r \in Reqs : WF_vars(ResumeUpdate(r)) /\ WF_vars(Respond(r))
IngestSpec == Init /\ [][IngestNext]_vars /\ IngestFairness

\* Ingestion of texts the rule-based categorization does not call general
ClassifiedPayloads ==
    {Body("telegram", "none", "u1", 555, t, FALSE, None, 2, {}, "absent") :
        t \in {"help", "price"}}
ClassifierNext ==
    \/ \E r \in Reqs, p \in ClassifiedPayloads : Receive(r, p)
    \/ \E r \in Reqs, openai \in OpenAiAnswers : AiDone(r, openai)
    \/ \E r \in Reqs : ResumeUpdate(r)
    \/ \E r \in Reqs : Respond(r)
ClassifierSpec == Init /\ [][ClassifierNext]_vars

AuthSpec == Init /\ [][AuthNext]_vars

HandshakeSpec == Init /\ [][HandshakeNext]_vars

WorkflowSpec == Init /\ [][WorkflowNext]_vars

WhatsAppSpec == Init /\ [][WhatsAppNext]_vars

SendSpec == Init /\ [][SendNext]_vars

TypeOK ==
    /\ messages \subseteq DOMAIN heap
    /\ messageCounter \in 0..MaxReq
    /\ conversationCounter \in 0..MaxReq

\* ------------------------------------------------------------ properties
Done(r) == req[r].pc = "done"
\* the request went through a webhook route and reached createMessage
Ingested(r) == req[r].pc /= "idle" /\ req[r].payload.route /= "service"
                 /\ req[r].mid /= None
\* the idempotency key of a request body
Key(p) == <<UnifiedMessage(p).platform, UnifiedMessage(p).platformMessageId>>
\* a stored message whose createMessage call has returned
Settled(id) == id \in messages /\ ~Held(id)

\* C1: each (platform, platformMessageId) pair is carried by at most one
\* stored message.
C1_OneMessagePerKey ==
    \A a \in messages, b \in messages :
        (heap[a].platform = heap[b].platform
         /\ heap[a].platformMessageId = heap[b].platformMessageId) => a = b

\* C2: of the ingestions of one payload key, all are acknowledged as success
\* and all name the same message id (one Accepted, the others Duplicate).
C2_OneAcceptedRestDuplicate ==
    \A r1 \in Reqs, r2 \in Reqs :
        (r1 /= r2 /\ Done(r1) /\ Done(r2) /\ Ingested(r1) /\ Ingested(r2)
         /\ Key(req[r1].payload) = Key(req[r2].payload))
        => /\ req[r1].resp.status = 200
           /\ req[r2].resp.status = 200
           /\ req[r1].resp.messageId = req[r2].resp.messageId

\* the resolution key of a conversation: its platform and the participant
\* pair it was created for (participants only ever grows at its end)
ConvKey(c) == <<c.primaryPlatform, SubSeq(c.participants, 1, 2)>>

\* C3: at most one Conversation record exists per resolution key.
C3_OneConversationPerKey ==
    \A c1 \in DOMAIN conversations, c2 \in DOMAIN conversations :
        ConvKey(conversations[c1]) = ConvKey(conversations[c2]) => c1 = c2

\* C4: the per-conversation numbers handed out by updateConversation are
\* exactly 1, 2, ..., k.
C4_GaplessSequence ==
    \A c \in DOMAIN countLog :
        \A i \in 1..Len(countLog[c]) : countLog[c][i] = i

\* C5: a request answered with a 5xx has consumed no message id and created
\* no conversation.
C5_FailureLeavesNoTrace ==
    \A r \in Reqs :
        (Done(r) /\ req[r].resp.status >= 500)
        => (req[r].mid = None /\ req[r].cid = None)

\* C6: once createMessage has stored the message of a webhook request, the
\* request is answered 200, whatever the emit does.
C6_FanOutNeverFails ==
    \A r \in Reqs : (Done(r) /\ Ingested(r)) => req[r].resp.status = 200

\* C7: a payload lacking sender, native id or timestamp is answered 4xx and
\* stores nothing.
C7_MalformedRejected ==
    \A r \in Reqs :
        (Done(r) /\ req[r].payload.missing \in {"from", "message_id", "date"})
        => (req[r].resp.status \in 400..499 /\ req[r].mid = None)

RouteIdsOf(s) == {s[i].id : i \in 1..Len(s)}
RouteMessage(s, id) == CHOOSE m \in {s[i] : i \in 1..Len(s)} : m.id = id

\* C8 as stated: no step changes or removes a settled message of the
\* message service, or a message of the route store.
C8_WriteOnce ==
    [][ /\ \A id \in messages :
              Settled(id) => (id \in messages' /\ heap'[id] = heap[id])
        /\ \A id \in RouteIdsOf(routeMessages) :
              /\ id \in RouteIdsOf(routeMessages')
              /\ RouteMessage(routeMessages', id) = RouteMessage(routeMessages, id)
      ]_vars

\* everything of a message but its read state
Content(m) == [m EXCEPT !.status = "", !.readAt = ""]
RouteContent(m) == [m EXCEPT !.status = ""]

\* C8 amended: a settled message that stays in its store keeps every field
\* but status and readAt.
C8_ContentFrozen ==
    [][ /\ \A id \in messages :
              (Settled(id) /\ id \in messages')
              => Content(heap'[id]) = Content(heap[id])
        /\ \/ routeMessages' = routeMessages
           \/ \A id \in RouteIdsOf(routeMessages) :
                 id \in RouteIdsOf(routeMessages')
                 => RouteContent(RouteMessage(routeMessages', id))
                      = RouteContent(RouteMessage(routeMessages, id))
      ]_vars

\* a settled message has been marked read and is still stored
C8_Witness ==
    \E id \in messages : Settled(id) /\ heap[id].status = "read"

\* C9: a conversationId, once set on a message object, never changes, and a
\* settled message keeps the one it has.
C9_ConversationIdSetOnce ==
    [][ \A id \in DOMAIN heap :
           id \in DOMAIN heap'
           => /\ heap[id].conversationId /= None
                 => heap'[id].conversationId = heap[id].conversationId
              /\ Settled(id)
                 => heap'[id].conversationId = heap[id].conversationId
      ]_vars

\* two ingestions have completed, one into a conversation it opened and one
\* into a conversation named by its caller, and both messages are stored
C9_Witness ==
    \E a \in messages, b \in messages :
        /\ a /= b /\ Settled(a) /\ Settled(b)
        /\ heap[a].conversationId /= None
        /\ heap[b].conversationId /= None
        /\ \E r \in Reqs : Done(r) /\ req[r].mid = b
                            /\ req[r].payload.conversationId /= None

\* C10: every stored message has a conversationId that names an existing
\* conversation.
C10_ConversationForeignKey ==
    \A id \in messages :
        /\ heap[id].conversationId /= None
        /\ heap[id].conversationId \in DOMAIN conversations

\* the requests that have been given a message id by createMessage
Created == {r \in Reqs : req[r].mid /= None}

\* C11: the ids createMessage has handed out, to sequential and to interleaved
\* calls, are pairwise different and stay so after a deletion; each is one of
\* the service's own msg_<n> names, not the platform's message id, and a
\* message object is stored under the id it carries.
C11_UniqueMessageIds ==
    /\ \A r1 \in Created, r2 \in Created : r1 /= r2 => req[r1].mid /= req[r2].mid
    /\ \A r \in Created :
          /\ req[r].mid \in MessageIds
          /\ req[r].mid /= UnifiedMessage(req[r].payload).platformMessageId
    /\ \A id \in DOMAIN heap : heap[id].id = id

\* a message has been created and deleted, and a later call has created
\* another message, which is stored
C11_Witness ==
    \E r1 \in Created, r2 \in Created :
        /\ r1 < r2
        /\ Done(r1) /\ req[r1].mid \notin messages
        /\ Done(r2) /\ req[r2].mid \in messages

\* an earlier request has already ingested the payload key of request r
Redelivery(r) ==
    \E q \in Reqs : q < r /\ Ingested(q) /\ Key(req[q].payload) = Key(req[r].payload)

GmailHandedOver(r) == req[r].pc /= "idle" /\ req[r].payload.route = "gmail"
\* the answer a webhook request gets for a stored message when it runs alone
AloneStatus == IF EmitThrows THEN 500 ELSE 200
\* the request is answered as it is when alone, and its message is stored
\* with its own content in a conversation that holds Gmail messages only
StoredAndAnswered(r) ==
    /\ Done(r)
    /\ req[r].resp.status = AloneStatus
    /\ req[r].mid \in messages
    /\ LET m == heap[req[r].mid] IN
       /\ m.platform = "gmail"
       /\ m.text = req[r].payload.text
       /\ m.senderId = req[r].payload.sender
       /\ m.conversationId = req[r].cid
       /\ m.conversationId \in DOMAIN conversations
       /\ conversations[m.conversationId].platforms = {"gmail"}
       /\ \A id \in messages :
             heap[id].conversationId = m.conversationId => heap[id].platform = "gmail"

C14_StoredIsDelivered ==
    \A r \in Reqs : (Done(r) /\ Ingested(r)) => req[r].mid \in emitted

\* the 'message:new' events held for a subscriber of the platform rooms that
\* is connected and reads nothing
Pending == emitted

C16_OrderedByPlatformTime ==
    \A r \in Created :
        req[r].mid \in messages
        => heap[req[r].mid].timestamp = UnifiedMessage(req[r].payload).timestamp

\* no createMessage call is under way
Quiescent == \A r \in Reqs : req[r].pc \in {"idle", "done"}
\* the message of a conversation with the greatest timestamp
Latest(cid) ==
    CHOOSE id \in MessagesOf(cid) :
        \A o \in MessagesOf(cid) : heap[o].timestamp <= heap[id].timestamp

\* C17: with no ingestion in progress, lastMessageTime of a conversation that
\* holds messages is the greatest timestamp among them and lastMessage is the
\* text of that message.
C17_LastActivityIsLatest ==
    Quiescent
    => \A cid \in DOMAIN conversations :
          MessagesOf(cid) /= {}
          => /\ conversations[cid].lastMessageTime = heap[Latest(cid)].timestamp
             /\ conversations[cid].lastMessage = heap[Latest(cid)].text

\* C18: a conversation has exactly one platform and its messages all have
\* the same platform.
C18_OnePlatformPerConversation ==
    \A cid \in DOMAIN conversations :
        /\ Cardinality(conversations[cid].platforms) = 1
        /\ \A a \in MessagesOf(cid), b \in MessagesOf(cid) :
              heap[a].platform = heap[b].platform

NoDuplicates(s) == \A i \in 1..Len(s), j \in 1..Len(s) : s[i] = s[j] => i = j

\* C19: participants names no identifier twice and names the sender of
\* every message of the conversation.
C19_ParticipantsAreASet ==
    \A cid \in DOMAIN conversations :
        /\ NoDuplicates(conversations[cid].participants)
        /\ \A id \in MessagesOf(cid) :
              Includes(conversations[cid].participants, heap[id].senderId)

\* createMessage has returned the message to its caller and, on a webhook
\* route, the request has been answered 200
Succeeded(r) == Done(r) /\ req[r].resp.messageId = req[r].mid

\* C20: after a successful ingestion, getConversationMessages for the
\* message's conversation returns the message, with the text of the payload
\* and the attachments of the payload in their order.
C20_RoundTrip ==
    \A r \in Created :
        (Succeeded(r) /\ req[r].mid \in messages)
        => /\ ~ConversationNotFound(req[r].cid)
           /\ LET got == GetConversationMessages(req[r].cid, DefaultLimit) IN
              \E i \in 1..Len(got) :
                 /\ got[i].id = req[r].mid
                 /\ got[i].text = req[r].payload.text
                 /\ got[i].attachments = AttachmentsFrom(req[r].payload.media, 1)

\* C24: with no createMessage call under way, messageCount of a conversation
\* is the number of stored messages that name the conversation.
C24_MessageCountIsNumberOfMessages ==
    Quiescent
    => \A cid \in DOMAIN conversations :
          conversations[cid].messageCount = Cardinality(MessagesOf(cid))

\* C22: a message handed to createMessage is eventually stored whether or
\* not the categorization ever answers.
C22_StoredWithoutClassifier ==
    \A r \in Reqs : (req[r].pc = "ai") ~> (req[r].mid \in messages)

\* C26: no two registered users share an email address.
C26_UniqueEmails ==
    \A i \in DOMAIN users, j \in DOMAIN users :
        users[i].email = users[j].email => i = j

\* C29: a verification handshake is answered 200, with the challenge, exactly
\* when it has hub.mode 'subscribe' and presents a verify token that is
\* configured; every other handshake is answered 403.
C29_HandshakeNeedsConfiguredToken ==
    handshake /= NoHandshake
    => /\ handshake.status = 200
          <=> /\ handshake.mode = "subscribe"
              /\ handshake.configured /= None
              /\ handshake.token = handshake.configured
       /\ handshake.status = 200 => handshake.body = handshake.challenge
       /\ handshake.status /= 200 => handshake.status = 403

\* an execution of the workflow is between two of its steps
InProgress(workflowId) ==
    \E e \in Execs : exec[e].pc = "action" /\ exec[e].wf = workflowId

\* C28: whenever no execution of a workflow is in progress its executionCount
\* is successCount + errorCount, and its successRate lies between 0 and 100.
C28_CountersAddUp ==
    \A w \in DOMAIN workflowObjects :
        /\ ~InProgress(w)
           => workflowObjects[w].executionCount
                = workflowObjects[w].successCount + workflowObjects[w].errorCount
        /\ SuccessRate(workflowObjects[w]) \in 0..100

\* a workflow at rest that was executed with success and with an error
C28_Witness ==
    \E w \in DOMAIN workflowObjects :
        /\ ~InProgress(w)
        /\ workflowObjects[w].successCount >= 1
        /\ workflowObjects[w].errorCount >= 1

\* C27: an execution goes on to an action of a workflow only while the
\* workflow exists and is enabled.
C27_NoActionWhileDisabledOrDeleted ==
    [][\A e \in Execs :
          (exec'[e].pc = "action"
           /\ (exec[e].pc /= "action" \/ exec'[e].i /= exec[e].i))
          => /\ exec'[e].wf \in activeWorkflows
             /\ workflowObjects[exec'[e].wf].enabled]_vars

\* C23: every Telegram webhook request that reached createMessage has passed
\* the signature check.
C23_TelegramVerified ==
    \A r \in Reqs :
        (req[r].pc /= "idle" /\ req[r].payload.route = "telegram"
         /\ req[r].mid /= None)
        => VerifyWebhook(req[r].payload, WebhookSecret) = 0

C30_SentIsStoredAsSent ==
    \A r \in Reqs :
        (req[r].pc /= "idle" /\ req[r].payload.route = "send"
         /\ req[r].mid \in messages)
        => /\ ~heap[req[r].mid].isIncoming
           /\ heap[req[r].mid].status = "sent"

\* a message without its id, its ingestion time and the conversation it was
\* filed under
Normalized(m) == [m EXCEPT !.id = None, !.timestamp = 0, !.conversationId = None]

\* C21: two messages stored from the same payload agree on every field but
\* the id and the ingestion time (and the conversation they were filed under).
C21_SamePayloadSameRecord ==
    \A r1 \in Reqs, r2 \in Reqs :
        (req[r1].pc /= "idle" /\ req[r2].pc /= "idle"
         /\ req[r1].payload = req[r2].payload
         /\ req[r1].mid \in messages /\ req[r2].mid \in messages)
        => Normalized(heap[req[r1].mid]) = Normalized(heap[req[r2].mid])

====
